---- MODULE Spec2Model ----
(***************************************************************************)
(* Model of the oscilloscope-vocabulary core (layers.py): the taxonomy     *)
(* tables, ColorExtractor, HarmonicMapper and ConstraintTranslator.        *)
(*                                                                         *)
(* Numbers.  Every float of the source is kept as the integer 1000 * x     *)
(* ("milli"): 0.45 is 450, a frequency 2.3 is 2300, a fidelity 0.65 is     *)
(* 650.  warm_count / total is kept exact as the pair (count, total); a    *)
(* comparison of it with a float literal is done by cross-multiplication   *)
(* and round(x, 3) is computed from the exact quotient (round-half-even,   *)
(* as Python rounds a float that holds the quotient exactly: total is a    *)
(* power of two).                                                          *)
(*                                                                         *)
(* Calls.  The process is a server of independent calls: from "idle" one   *)
(* operation runs to completion with inputs drawn from bounded sets and    *)
(* leaves its arguments and its result in call / result ("returned");      *)
(* Deliver hands the result to the caller and the process is idle again.   *)
(* PROFILES and LEVELS are the only state that outlives a call.            *)
(***************************************************************************)
EXTENDS Integers, Sequences, FiniteSets, TLC

VARIABLES
    PROFILES,   \* HarmonicProfiles.PROFILES (class attribute, a dict)
    LEVELS,     \* ConstraintLevels.LEVELS (class attribute, a dict)
    pc,         \* "idle" | "returned"
    call,       \* the running/last call: [op |-> ..., args |-> ...]
    result,     \* the value the call returned (a record)
    raised,     \* TRUE when the call ended by an exception reaching the caller
    locals,     \* the local variables of the call when it ended
    opens,      \* how many times the call opened the image file
    inflight    \* the calls of concurrent threads: thread -> its call and stage

vars == <<PROFILES, LEVELS, pc, call, result, raised, locals, opens, inflight>>

(***************************************************************************)
(* Bounds of the inputs                                                    *)
(***************************************************************************)

\* How far around a threshold the counts and ratios are enumerated.
NearBy == 1
\* Solid images have channel values 0 .. MaxChannel.
MaxChannel == 2
\* The most distinct colours a downsample holds.
MaxDistinct == 6
\* How many entries one of the two sequences of a renderer has beyond the other.
MaxExtra == 1
\* How many values callers append to the lists they were handed.
MaxAppends == 1
\* How many threads have a call in flight at the same time.
NumThreads == 2

(***************************************************************************)
(* Taxonomy tables                                                         *)
(***************************************************************************)

ProfileNames == {"simple", "harmonic_rich", "complex_lissajous", "chaotic"}

\* The table with the last amplitude of "chaotic" left out.
InitialProfilesAmplitudeMissing ==
    [name \in ProfileNames |->
        CASE name = "simple" ->
                [frequencies |-> <<1000>>,
                 amplitudes  |-> <<1000>>,
                 description |-> "Pure fundamental tone, clean sine wave",
                 complexity  |-> "low"]
          [] name = "harmonic_rich" ->
                [frequencies |-> <<1000, 2000, 3000, 4000>>,
                 amplitudes  |-> <<1000, 500, 330, 250>>,
                 description |-> "Rich harmonic series, complex waveform with overtones",
                 complexity  |-> "medium"]
          [] name = "complex_lissajous" ->
                [frequencies |-> <<1000, 1500, 2300>>,
                 amplitudes  |-> <<1000, 700, 400>>,
                 description |-> "Inharmonic ratios create Lissajous patterns",
                 complexity  |-> "high"]
          [] name = "chaotic" ->
                [frequencies |-> <<1000, 2700, 3200, 4800, 5100>>,
                 amplitudes  |-> <<1000, 600, 400, 300>>,
                 description |-> "Dense frequency content, intricate waveform",
                 complexity  |-> "very_high"]]

InitialProfiles ==
    [name \in ProfileNames |->
        CASE name = "simple" ->
                [frequencies |-> <<1000>>,
                 amplitudes  |-> <<1000>>,
                 description |-> "Pure fundamental tone, clean sine wave",
                 complexity  |-> "low"]
          [] name = "harmonic_rich" ->
                [frequencies |-> <<1000, 2000, 3000, 4000>>,
                 amplitudes  |-> <<1000, 500, 330, 250>>,
                 description |-> "Rich harmonic series, complex waveform with overtones",
                 complexity  |-> "medium"]
          [] name = "complex_lissajous" ->
                [frequencies |-> <<1000, 1500, 2300>>,
                 amplitudes  |-> <<1000, 700, 400>>,
                 description |-> "Inharmonic ratios create Lissajous patterns",
                 complexity  |-> "high"]
          [] name = "chaotic" ->
                [frequencies |-> <<1000, 2700, 3200, 4800, 5100>>,
                 amplitudes  |-> <<1000, 600, 400, 300, 200>>,
                 description |-> "Dense frequency content, intricate waveform",
                 complexity  |-> "very_high"]]

LevelNames == {"very_loose", "loose", "balanced", "strict", "very_strict"}

\* The table with the fidelity of "loose" mistyped as 0.7.
InitialLevelsLooseMistyped ==
    [name \in LevelNames |->
        CASE name = "very_loose" ->
                [fidelity |-> 300, color_tolerance |-> 500, complexity_delta |-> 600,
                 description |-> "Loose interpretation, significant creative freedom",
                 profile |-> "chaotic"]
          [] name = "loose" ->
                [fidelity |-> 700, color_tolerance |-> 650, complexity_delta |-> 400,
                 description |-> "Relaxed constraints, creative exploration",
                 profile |-> "complex_lissajous"]
          [] name = "balanced" ->
                [fidelity |-> 650, color_tolerance |-> 750, complexity_delta |-> 250,
                 description |-> "Balanced between constraint and freedom",
                 profile |-> "harmonic_rich"]
          [] name = "strict" ->
                [fidelity |-> 800, color_tolerance |-> 900, complexity_delta |-> 100,
                 description |-> "Tight harmonic adherence, minimal deviation",
                 profile |-> "harmonic_rich"]
          [] name = "very_strict" ->
                [fidelity |-> 950, color_tolerance |-> 980, complexity_delta |-> 50,
                 description |-> "Strict fidelity to structure and color ratios",
                 profile |-> "simple"]]

InitialLevels ==
    [name \in LevelNames |->
        CASE name = "very_loose" ->
                [fidelity |-> 300, color_tolerance |-> 500, complexity_delta |-> 600,
                 description |-> "Loose interpretation, significant creative freedom",
                 profile |-> "chaotic"]
          [] name = "loose" ->
                [fidelity |-> 500, color_tolerance |-> 650, complexity_delta |-> 400,
                 description |-> "Relaxed constraints, creative exploration",
                 profile |-> "complex_lissajous"]
          [] name = "balanced" ->
                [fidelity |-> 650, color_tolerance |-> 750, complexity_delta |-> 250,
                 description |-> "Balanced between constraint and freedom",
                 profile |-> "harmonic_rich"]
          [] name = "strict" ->
                [fidelity |-> 800, color_tolerance |-> 900, complexity_delta |-> 100,
                 description |-> "Tight harmonic adherence, minimal deviation",
                 profile |-> "harmonic_rich"]
          [] name = "very_strict" ->
                [fidelity |-> 950, color_tolerance |-> 980, complexity_delta |-> 50,
                 description |-> "Strict fidelity to structure and color ratios",
                 profile |-> "simple"]]

\* dict.get(name, default) on a table.
DictGet(table, name, default) ==
    IF name \in DOMAIN table THEN table[name] ELSE default

\* A lookup by subscript, cls.PROFILES[name]: KeyError on an unknown name.
HarmonicProfilesGetSubscript(table, name) ==
    IF name \in DOMAIN table THEN table[name] ELSE [exception |-> "KeyError"]

\* HarmonicProfiles.get
HarmonicProfilesGet(table, name) ==
    DictGet(table, name, table["harmonic_rich"])

\* A lookup by subscript, cls.LEVELS[name]: KeyError on an unknown name.
ConstraintLevelsGetSubscript(table, name) ==
    IF name \in DOMAIN table THEN table[name] ELSE [exception |-> "KeyError"]

\* ConstraintLevels.get
ConstraintLevelsGet(table, name) ==
    DictGet(table, name, table["balanced"])

\* Identifiers callers pass: the known ones and some that are in neither table.
UnknownNames == {"nonexistent", "unknown_id", "", "Balanced"}

LookupNames == ProfileNames \cup LevelNames \cup UnknownNames

(***************************************************************************)
(* Calls                                                                   *)
(***************************************************************************)

NoCall == [op |-> "none", args |-> <<>>]
NoResult == [none |-> TRUE]
NoLocals == [x \in {} |-> 0]
\* A thread with no call in flight.
NotInFlight == [pc |-> "idle", op |-> "none", args |-> <<>>, held |-> "", result |-> NoResult]

Init ==
    /\ PROFILES = InitialProfiles
    /\ LEVELS = InitialLevels
    /\ pc = "idle"
    /\ call = NoCall
    /\ result = NoResult
    /\ raised = FALSE
    /\ locals = NoLocals
    /\ opens = 0
    /\ inflight = [th \in 1 .. NumThreads |-> NotInFlight]

\* An exception in flight is the record [exception |-> message]; every other
\* value is a returned value.
IsException(value) == "exception" \in DOMAIN value

\* The end of a call: `value` is what its body produced and `frame` its local
\* variables.  An exception that nothing caught reaches the caller.
Returns(op, args, value, frame) ==
    /\ pc' = "returned"
    /\ call' = [op |-> op, args |-> args]
    /\ result' = value
    /\ raised' = IsException(value)
    /\ locals' = frame

\* HarmonicProfiles.get(name)
ProfilesGet ==
    /\ pc = "idle"
    /\ \E name \in LookupNames :
          Returns("profiles_get", [name |-> name], HarmonicProfilesGet(PROFILES, name), NoLocals)
    /\ UNCHANGED <<PROFILES, LEVELS, opens, inflight>>

\* ConstraintLevels.get(name)
LevelsGet ==
    /\ pc = "idle"
    /\ \E name \in LookupNames :
          Returns("levels_get", [name |-> name], ConstraintLevelsGet(LEVELS, name), NoLocals)
    /\ UNCHANGED <<PROFILES, LEVELS, opens, inflight>>

(***************************************************************************)
(* ColorExtractor                                                          *)
(***************************************************************************)

GridSide == 256          \* img.resize((256, 256))
SampleSide == 64         \* img.resize((64, 64))
TopColors == 5           \* sorted(...)[:5]
HeavyThreshold == 400    \* warm_ratio > 0.4
BalancedGap == 150       \* abs(warm_ratio - cool_ratio) < 0.15
Milli == 1000            \* round(x, 3): three decimal places

Total == GridSide * GridSide
SampleTotal == SampleSide * SampleSide

\* A decoded image is kept as runs of equal pixels, [rgb |-> <<r, g, b>>,
\* n |-> how many]: the 256x256 grid in `pixels`, and in `small` the distinct
\* colours of the 64x64 downsample in the order the scan first meets them.

\* The pixel test with >= for >: a tie with the greatest channel counts too.
ClassifyTiesIncluded(rgb) ==
    LET r == rgb[1]  g == rgb[2]  b == rgb[3]
    IN  IF r >= g /\ r >= b THEN "warm"
        ELSE IF b >= g /\ b >= r THEN "cool"
        ELSE "neutral"

\* The if/elif/else of the pixel loop.
Classify(rgb) ==
    LET r == rgb[1]  g == rgb[2]  b == rgb[3]
    IN  IF r > g /\ r > b THEN "warm"
        ELSE IF b > g /\ b > r THEN "cool"
        ELSE "neutral"

\* The counter of one class after the loop over all pixels.
RECURSIVE CountClass(_, _)
CountClass(pixels, class) ==
    IF pixels = <<>> THEN 0
    ELSE (IF Classify(Head(pixels).rgb) = class THEN Head(pixels).n ELSE 0)
             + CountClass(Tail(pixels), class)

\* len(pixels)
RECURSIVE NumPixels(_)
NumPixels(pixels) ==
    IF pixels = <<>> THEN 0 ELSE Head(pixels).n + NumPixels(Tail(pixels))

\* round(count / total, 1), in milli.
RoundOneDecimal(count, total) ==
    LET q == (count * 10) \div total
        r == (count * 10) % total
    IN  100 * (IF 2 * r > total \/ (2 * r = total /\ q % 2 = 1) THEN q + 1 ELSE q)

\* round(count / total, 3), in milli: the nearest thousandth of the exact
\* quotient, a tie going to the even one.
Round3(count, total) ==
    LET q == (count * Milli) \div total
        r == (count * Milli) % total
    IN  IF 2 * r > total \/ (2 * r = total /\ q % 2 = 1) THEN q + 1 ELSE q

\* count / total > threshold, the threshold in milli.
RatioAbove(count, total, threshold) == count * Milli > threshold * total

\* abs(a / total - b / total) < gap, the gap in milli.
RatioGapBelow(a, b, total, gap) ==
    (IF a >= b THEN a - b ELSE b - a) * Milli < gap * total

\* color_counts after its loop: one entry per distinct colour, in the order of
\* first appearance, with the number of its pixels.
RECURSIVE AddCount(_, _)
AddCount(color_counts, run) ==
    IF color_counts = <<>> THEN <<run>>
    ELSE IF Head(color_counts).rgb = run.rgb
         THEN <<[rgb |-> run.rgb, n |-> Head(color_counts).n + run.n]>>
                  \o Tail(color_counts)
         ELSE <<Head(color_counts)>> \o AddCount(Tail(color_counts), run)

RECURSIVE ColorCounts(_)
ColorCounts(small) ==
    IF small = <<>> THEN <<>>
    ELSE AddCount(ColorCounts(SubSeq(small, 1, Len(small) - 1)), small[Len(small)])

\* One step of a stable sort by descending count: `item` goes behind every
\* entry whose count is not smaller.
RECURSIVE InsertByCount(_, _)
InsertByCount(sorted, item) ==
    IF sorted = <<>> THEN <<item>>
    ELSE IF Head(sorted).n >= item.n
         THEN <<Head(sorted)>> \o InsertByCount(Tail(sorted), item)
         ELSE <<item>> \o sorted

\* sorted(items, key=count) without reverse=True: ascending.
RECURSIVE InsertAscending(_, _)
InsertAscending(sorted, item) ==
    IF sorted = <<>> THEN <<item>>
    ELSE IF Head(sorted).n <= item.n
         THEN <<Head(sorted)>> \o InsertAscending(Tail(sorted), item)
         ELSE <<item>> \o sorted

RECURSIVE SortedAscending(_)
SortedAscending(items) ==
    IF items = <<>> THEN <<>>
    ELSE InsertAscending(SortedAscending(SubSeq(items, 1, Len(items) - 1)),
                         items[Len(items)])

\* sorted(color_counts.items(), key=lambda x: x[1], reverse=True)
RECURSIVE SortedByCount(_)
SortedByCount(items) ==
    IF items = <<>> THEN <<>>
    ELSE InsertByCount(SortedByCount(SubSeq(items, 1, Len(items) - 1)),
                       items[Len(items)])

\* seq[:k]
Prefix(seq, k) == SubSeq(seq, 1, IF Len(seq) < k THEN Len(seq) ELSE k)

\* The local variables of extract after its two loops.
ExtractLocals(image) ==
    [warm_count    |-> CountClass(image.pixels, "warm"),
     cool_count    |-> CountClass(image.pixels, "cool"),
     neutral_count |-> CountClass(image.pixels, "neutral"),
     total         |-> NumPixels(image.pixels),
     sorted_colors |-> Prefix(SortedByCount(ColorCounts(image.small)), TopColors),
     sample_total  |-> NumPixels(image.small)]

\* The body of the try block of extract: the exception of the library call
\* that fails, else the dict of the return statement.
ExtractBody(image) ==
    IF image.fault # "none" THEN [exception |-> image.message]
    ELSE
    LET v == ExtractLocals(image)
    IN  [warm_ratio    |-> Round3(v.warm_count, v.total),
         cool_ratio    |-> Round3(v.cool_count, v.total),
         neutral_ratio |-> Round3(v.neutral_count, v.total),
         dominant_colors |->
            [i \in 1 .. Len(v.sorted_colors) |->
                [rgb |-> v.sorted_colors[i].rgb,
                 percentage |-> Round3(v.sorted_colors[i].n, v.sample_total)]],
         color_balance |->
            [warm_heavy |-> RatioAbove(v.warm_count, v.total, HeavyThreshold),
             cool_heavy |-> RatioAbove(v.cool_count, v.total, HeavyThreshold),
             balanced   |-> RatioGapBelow(v.warm_count, v.cool_count, v.total,
                                          BalancedGap)]]

\* An except clause that names only FileNotFoundError.
CatchFileNotFound(image, value) ==
    IF IsException(value) /\ image.fault = "open" /\ image.message = "No such file"
    THEN [error |-> value.exception]
    ELSE value

\* except Exception as e: return {"error": str(e)}
Catch(image, value) ==
    IF IsException(value) THEN [error |-> value.exception] ELSE value

\* ColorExtractor.extract
ExtractResult(image) == Catch(image, ExtractBody(image))

\* ---- the images callers pass ----

\* Files that fail: Image.open raises for a missing or an unrecognised file,
\* convert() (which decodes) for a truncated one.
FaultyImages ==
    { [fault |-> "open", type |-> "FileNotFoundError", message |-> "No such file"],
      [fault |-> "open", type |-> "UnidentifiedImageError",
       message |-> "cannot identify image file"],
      [fault |-> "convert", type |-> "OSError", message |-> "image file is truncated"] }

Decoded(pixels, small) ==
    [fault |-> "none", type |-> "", message |-> "", pixels |-> pixels, small |-> small]

\* Images of one colour; their downsample has that colour alone.
SolidColors ==
    {<<r, g, b>> : r \in 0 .. MaxChannel, g \in 0 .. MaxChannel, b \in 0 .. MaxChannel}
        \cup {<<200, 100, 50>>}

SolidImages ==
    { Decoded(<<[rgb |-> c, n |-> Total]>>, <<[rgb |-> c, n |-> SampleTotal]>>) :
        c \in SolidColors }

\* Pixel counts around x.
Near(x) == (x - NearBy + 1) .. (x + NearBy)

\* The largest count whose ratio is not above 0.4, the largest whose rounded
\* ratio is not above 0.4, and the largest difference of two counts whose
\* ratios are less than 0.15 apart.
HeavyEdge == (HeavyThreshold * Total) \div Milli
RoundedHeavyEdge == ((2 * HeavyThreshold + 1) * Total) \div (2 * Milli)
GapEdge == (BalancedGap * Total) \div Milli

\* Counts of one class: none, all, a third, a half, the two smallest counts
\* whose ratio is a tie between two thousandths, and the edges.
ClassCounts ==
    {0, Total \div 16, 3 * (Total \div 16), Total \div 3, Total \div 2, Total}
        \cup Near(HeavyEdge) \cup Near(RoundedHeavyEdge)

\* (warm, cool) counts; the rest of the grid is neutral.
Splits ==
    UNION { { <<w, c>> :
                c \in { x \in ClassCounts \cup { w - gap : gap \in Near(GapEdge) } :
                          x >= 0 /\ w + x <= Total } } :
            w \in ClassCounts }

Run(rgb, n) == IF n = 0 THEN <<>> ELSE <<[rgb |-> rgb, n |-> n]>>

\* A grid of a warm, a cool and a neutral area.
MixedPixels(w, c) ==
    Run(<<200, 100, 50>>, w) \o Run(<<50, 100, 200>>, c)
        \o Run(<<200, 200, 50>>, Total - w - c)

\* Pixel counts of one colour of the downsample: halves, one row of it and
\* all rows but four, and counts whose share of the 4096 pixels rounds up.
SampleCounts ==
    {SampleTotal, SampleTotal \div 2, SampleTotal \div 4, SampleTotal \div 8,
     SampleSide, SampleTotal - 4 * SampleSide, 818, 824, 2460}

\* The sequences of at most k counts that add up to rem.
RECURSIVE CountSeqs(_, _)
CountSeqs(rem, k) ==
    IF rem = 0 THEN {<<>>}
    ELSE IF k = 0 THEN {}
    ELSE UNION { { <<n>> \o rest : rest \in CountSeqs(rem - n, k - 1) } :
                   n \in {m \in SampleCounts : m <= rem} }

SampleColor(i) == <<30 * i, 255 - 30 * i, 128>>

\* The downsample of a mixed image: resize blends the colours at the borders,
\* so any colours in any numbers are possible.  `again` makes the last run
\* repeat the first run's colour.
SampleOf(counts, again) ==
    [i \in 1 .. Len(counts) |->
        [rgb |-> IF again /\ i = Len(counts) /\ i > 2
                 THEN SampleColor(1) ELSE SampleColor(i),
         n |-> counts[i]]]

Samples ==
    { SampleOf(counts, again) :
        counts \in CountSeqs(SampleTotal, MaxDistinct), again \in BOOLEAN }

\* A grid of one colour is a solid image; a grid of more has any downsample.
MixedImages ==
    { Decoded(MixedPixels(wc[1], wc[2]), small) :
        wc \in {x \in Splits : Len(MixedPixels(x[1], x[2])) > 1}, small \in Samples }

Images == FaultyImages \cup SolidImages \cup MixedImages

(***************************************************************************)
(* HarmonicMapper                                                          *)
(***************************************************************************)

\* Thresholds and defaults of map_colors, in milli.
DominanceThreshold == 450
DefaultWarm == 330
DefaultCool == 330
DefaultNeutral == 340

\* color_ratios.get("color_balance", {}).get("balanced"), taken as a truth
\* value: an absent dict or an absent key gives None, which is false.
BalancedFlag(color_ratios) ==
    LET balance == DictGet(color_ratios, "color_balance", [x \in {} |-> FALSE])
    IN  DictGet(balance, "balanced", FALSE)

\* The if/elif chain with the dominance tests ahead of the balanced test.
BaseProfileDominanceFirst(color_ratios) ==
    LET warm == DictGet(color_ratios, "warm_ratio", DefaultWarm)
        cool == DictGet(color_ratios, "cool_ratio", DefaultCool)
    IN  IF warm > DominanceThreshold THEN "complex_lissajous"
        ELSE IF cool > DominanceThreshold THEN "complex_lissajous"
        ELSE "harmonic_rich"

\* The if/elif chain of map_colors that names the base profile.
BaseProfile(color_ratios) ==
    LET warm == DictGet(color_ratios, "warm_ratio", DefaultWarm)
        cool == DictGet(color_ratios, "cool_ratio", DefaultCool)
    IN  IF BalancedFlag(color_ratios) THEN "harmonic_rich"
        ELSE IF warm > DominanceThreshold THEN "complex_lissajous"
        ELSE IF cool > DominanceThreshold THEN "complex_lissajous"
        ELSE "harmonic_rich"

\* The preference applied only when the colours chose the default profile.
SelectedProfileKeepsLissajous(table, base_profile, complexity_preference) ==
    IF base_profile # "harmonic_rich" THEN HarmonicProfilesGet(table, base_profile)
    ELSE IF complexity_preference = "simple" THEN HarmonicProfilesGet(table, "simple")
    ELSE IF complexity_preference = "complex" THEN HarmonicProfilesGet(table, "chaotic")
    ELSE HarmonicProfilesGet(table, base_profile)

\* The profile map_colors reads its output from: the base profile's entry,
\* replaced when the preference is "simple" or "complex".
SelectedProfile(table, base_profile, complexity_preference) ==
    IF complexity_preference = "simple" THEN HarmonicProfilesGet(table, "simple")
    ELSE IF complexity_preference = "complex" THEN HarmonicProfilesGet(table, "chaotic")
    ELSE HarmonicProfilesGet(table, base_profile)

\* map_colors with base_profile naming the profile the preference selected.
MapColorsResultNamesSelection(table, color_ratios, complexity_preference) ==
    LET base_profile ==
            IF complexity_preference = "simple" THEN "simple"
            ELSE IF complexity_preference = "complex" THEN "chaotic"
            ELSE BaseProfile(color_ratios)
        profile == SelectedProfile(table, base_profile, complexity_preference)
    IN  IF IsException(profile) THEN profile
        ELSE [base_profile  |-> base_profile,
              frequencies   |-> profile.frequencies,
              amplitudes    |-> profile.amplitudes,
              description   |-> profile.description,
              complexity    |-> profile.complexity,
              color_mapping |->
                 [warm_ratio    |-> DictGet(color_ratios, "warm_ratio", DefaultWarm),
                  cool_ratio    |-> DictGet(color_ratios, "cool_ratio", DefaultCool),
                  neutral_ratio |-> DictGet(color_ratios, "neutral_ratio", DefaultNeutral)]]

\* HarmonicMapper.map_colors
MapColorsResult(table, color_ratios, complexity_preference) ==
    LET base_profile == BaseProfile(color_ratios)
        profile == SelectedProfile(table, base_profile, complexity_preference)
    IN  IF IsException(profile) THEN profile
        ELSE [base_profile  |-> base_profile,
              frequencies   |-> profile.frequencies,
              amplitudes    |-> profile.amplitudes,
              description   |-> profile.description,
              complexity    |-> profile.complexity,
              color_mapping |->
                 [warm_ratio    |-> DictGet(color_ratios, "warm_ratio", DefaultWarm),
                  cool_ratio    |-> DictGet(color_ratios, "cool_ratio", DefaultCool),
                  neutral_ratio |-> DictGet(color_ratios, "neutral_ratio", DefaultNeutral)]]

\* Ratios (milli) callers pass: the ends, the defaults, the test values and the
\* neighbourhood of the 0.45 threshold.
RatioValues ==
    {0, 280, 330, 520, 1000}
        \cup ((DominanceThreshold - NearBy) .. (DominanceThreshold + NearBy))

NeutralValues == {200, 340}

\* color_balance dicts: as extract builds them, and without the keys.
BalanceDicts ==
    {[x \in {} |-> FALSE]}
        \cup [warm_heavy : BOOLEAN, cool_heavy : BOOLEAN, balanced : BOOLEAN]

RatioKeys == {"warm_ratio", "cool_ratio", "neutral_ratio"}

\* Which keys the caller's dict holds.
KeySets ==
    { RatioKeys \cup {"color_balance"},
      RatioKeys,
      {"color_balance"},
      {"cool_ratio", "neutral_ratio", "color_balance"},
      {"warm_ratio", "neutral_ratio"},
      {} }

ColorRatioDicts ==
    { [k \in keys |->
          CASE k = "warm_ratio" -> w
            [] k = "cool_ratio" -> c
            [] k = "neutral_ratio" -> n
            [] k = "color_balance" -> b] :
      w \in RatioValues, c \in RatioValues, n \in NeutralValues,
      b \in BalanceDicts, keys \in KeySets }

Preferences == {"simple", "balanced", "complex", "medium"}

\* HarmonicMapper.map_colors(color_ratios, complexity_preference)
MapColors ==
    /\ pc = "idle"
    /\ \E color_ratios \in ColorRatioDicts, complexity_preference \in Preferences :
          Returns("map_colors",
                  [color_ratios |-> color_ratios,
                   complexity_preference |-> complexity_preference],
                  MapColorsResult(PROFILES, color_ratios, complexity_preference),
                  NoLocals)
    /\ UNCHANGED <<PROFILES, LEVELS, opens, inflight>>

(***************************************************************************)
(* ConstraintTranslator                                                    *)
(***************************************************************************)

\* The description left as the table has it.
LowerUnchanged(description) == description

\* str.lower() of the descriptions of LEVELS (each has one capital, its first
\* letter).
Lower(description) ==
    CASE description = "Loose interpretation, significant creative freedom" ->
            "loose interpretation, significant creative freedom"
      [] description = "Relaxed constraints, creative exploration" ->
            "relaxed constraints, creative exploration"
      [] description = "Balanced between constraint and freedom" ->
            "balanced between constraint and freedom"
      [] description = "Tight harmonic adherence, minimal deviation" ->
            "tight harmonic adherence, minimal deviation"
      [] description = "Strict fidelity to structure and color ratios" ->
            "strict fidelity to structure and color ratios"

\* int(x * 100) of a table value x (milli).  Exact for the values of LEVELS:
\* none of their float products falls below the integer it stands for.
IntPercent(milli) == (milli * 100) \div 1000

\* The complexity percentage capped at 100.
IntPercentTimesTenCapped(milli) ==
    IF (milli * 100 * 10) \div 1000 > 100 THEN 100 ELSE (milli * 100 * 10) \div 1000

\* int(x * 100 * 10)
IntPercentTimesTen(milli) == (milli * 100 * 10) \div 1000

\* ConstraintTranslator.translate
TranslateResult(table, constraint_level, direction) ==
    LET constraint == ConstraintLevelsGet(table, constraint_level)
    IN  IF IsException(constraint) THEN constraint
        ELSE
        LET narrative ==
              IF direction = "forward"
              THEN "Transform the input image with " \o Lower(constraint.description)
              ELSE "Guide image generation from user prompt with "
                       \o Lower(constraint.description)
        IN  [constraint_level |-> constraint_level,
             narrative |-> narrative,
             fidelity |-> constraint.fidelity,
             color_tolerance |-> constraint.color_tolerance,
             complexity_delta |-> constraint.complexity_delta,
             suggested_harmonic_profile |-> constraint.profile,
             instructions |->
                [fidelity |-> "Maintain " \o ToString(IntPercent(constraint.fidelity))
                                 \o "% structural fidelity to source",
                 color |-> "Keep color ratios within "
                                 \o ToString(IntPercent(constraint.color_tolerance))
                                 \o "% tolerance",
                 complexity |-> "Allow "
                                 \o ToString(IntPercentTimesTen(constraint.complexity_delta))
                                 \o "% complexity variation"]]

Directions == {"forward", "reverse", "sideways"}

\* ConstraintTranslator.translate(constraint_level, direction)
Translate ==
    /\ pc = "idle"
    /\ \E constraint_level \in LookupNames, direction \in Directions :
          Returns("translate",
                  [constraint_level |-> constraint_level, direction |-> direction],
                  TranslateResult(LEVELS, constraint_level, direction),
                  NoLocals)
    /\ UNCHANGED <<PROFILES, LEVELS, opens, inflight>>

\* ColorExtractor.extract(image_path); the file at image_path holds `image`.
Extract ==
    /\ pc = "idle"
    /\ \E image \in Images :
          Returns("extract", [image |-> image], ExtractResult(image),
                  IF image.fault = "none" THEN ExtractLocals(image) ELSE NoLocals)
    /\ opens' = 1
    /\ UNCHANGED <<PROFILES, LEVELS, inflight>>

\* The caller takes the returned value; the process keeps only the tables.
Deliver ==
    /\ pc = "returned"
    /\ pc' = "idle"
    /\ call' = NoCall
    /\ result' = NoResult
    /\ raised' = FALSE
    /\ locals' = NoLocals
    /\ opens' = 0
    /\ UNCHANGED <<PROFILES, LEVELS, inflight>>

Next ==
    \/ ProfilesGet
    \/ LevelsGet
    \/ Extract
    \/ MapColors
    \/ Translate
    \/ Deliver

Spec == Init /\ [][Next]_vars

(***************************************************************************)
(* OscilloscopeRenderer                                                    *)
(*                                                                         *)
(* Amplitudes and frequencies are in thousandths like every other float.   *)
(* An angle is a fraction num/den of a half turn (of pi), a sine is in     *)
(* hundredths, a synthesized sample is amplitude (thousandths) times sine  *)
(* (hundredths), a normalized sample is in thousandths and a pixel         *)
(* coordinate is in thousandths of a pixel.                                *)
(***************************************************************************)

\* np.abs
Abs(x) == IF x < 0 THEN -x ELSE x

\* Float division a / b for b > 0, cut to a whole number of units.
Quotient(a, b) == IF a < 0 THEN -((-a) \div b) ELSE a \div b

\* np.sin of the angle num/den half turns plus phase two-hundredths of a half
\* turn, in hundredths.  The angle is brought into one period and onto a grid
\* of 200 steps a half turn; on a half turn the sine is Bhaskara's
\* 16 a (b - a) / (5 b b - 4 a (b - a)), which is 0 at both ends and 1 in the
\* middle.  The value is within 0.03 of the sine and never beyond -1 or 1.
Sin(num, den, phase) ==
    LET q == (((num % (2 * den)) * 200) \div den + phase) % 400
        a == q % 200
        s == (1600 * a * (200 - a)) \div (5 * 200 * 200 - 4 * a * (200 - a))
    IN  IF q < 200 THEN s ELSE -s

\* np.linspace(0, halfturns * pi, n): n angles from 0 to the end, both included.
Linspace(halfturns, n) ==
    [i \in 1 .. n |-> [num |-> halfturns * (i - 1), den |-> IF n > 1 THEN n - 1 ELSE 1]]

\* The pairs zip(frequencies, amplitudes) yields, as their number.
Zip(frequencies, amplitudes) ==
    IF Len(frequencies) < Len(amplitudes) THEN Len(frequencies) ELSE Len(amplitudes)

\* The sum over every frequency, an amplitude that is missing taken as 1.0.
RECURSIVE PaddedSum(_, _, _, _)
PaddedSum(frequencies, amplitudes, k, t) ==
    IF k = 0 THEN 0
    ELSE PaddedSum(frequencies, amplitudes, k - 1, t)
            + (IF k <= Len(amplitudes) THEN amplitudes[k] ELSE Milli)
                 * Sin(frequencies[k] * t.num, Milli * t.den, 0)
SynthesizePadded(frequencies, amplitudes, pairs, t) ==
    PaddedSum(frequencies, amplitudes, Len(frequencies), t)

\* One sample of the waveform after the loop over the first `pairs` pairs:
\* the sum of amp * sin(freq * t).
RECURSIVE Synthesize(_, _, _, _)
Synthesize(frequencies, amplitudes, pairs, t) ==
    IF pairs = 0 THEN 0
    ELSE Synthesize(frequencies, amplitudes, pairs - 1, t)
            + amplitudes[pairs] * Sin(frequencies[pairs] * t.num, Milli * t.den, 0)

\* The greatest of the samples lo .. hi and 0, signs kept.
RECURSIVE MaxSigned(_, _, _)
MaxSigned(waveform, lo, hi) ==
    IF lo > hi THEN 0
    ELSE IF lo = hi THEN (IF waveform[lo] > 0 THEN waveform[lo] ELSE 0)
    ELSE LET mid   == (lo + hi) \div 2
             left  == MaxSigned(waveform, lo, mid)
             right == MaxSigned(waveform, mid + 1, hi)
         IN  IF left > right THEN left ELSE right

\* np.max(np.abs(waveform)) over the samples lo .. hi, found by halves.
RECURSIVE MaxAbs(_, _, _)
MaxAbs(waveform, lo, hi) ==
    IF lo > hi THEN 0
    ELSE IF lo = hi THEN Abs(waveform[lo])
    ELSE LET mid   == (lo + hi) \div 2
             left  == MaxAbs(waveform, lo, mid)
             right == MaxAbs(waveform, mid + 1, hi)
         IN  IF left > right THEN left ELSE right

\* The division carried out whatever the maximum.
GuardAlways(maximum) == TRUE

\* The test that guards the division.
Guard(maximum) == maximum > 0

\* waveform / maximum, in thousandths.  With a maximum of 0 every sample is 0
\* and numpy gives nan for 0 / 0 with a warning; the sample is left 0 here.
Divide(waveform, maximum) ==
    [i \in DOMAIN waveform |->
        IF maximum = 0 THEN 0 ELSE Quotient(waveform[i] * Milli, maximum)]

\* One in the units of a synthesized sample.
SampleOne == 100 * Milli

\* ((v + 1) / 2 * (extent - 40)) + 20 for v in units of 1/one, in thousandths
\* of a pixel.
ToCoordinate(v, one, extent) ==
    Quotient((v + one) * (extent - 40), (2 * one) \div Milli) + 20 * Milli

\* range(0, extent, step)
Range(extent, step) == {i \in 0 .. extent - 1 : i % step = 0}

\* Image.new and the draw.line calls: the canvas with what was drawn on it.
Canvas(width, height, grid_step, points, axes) ==
    [size       |-> <<width, height>>,
     mode       |-> "RGB",
     background |-> <<20, 20, 30>>,
     grid       |-> [vertical   |-> Range(width, 50),
                     horizontal |-> Range(height, grid_step)],
     trace      |-> points,
     axes       |-> axes]

\* img.save(format="PNG"), base64 and the f-string of the return statement: the
\* fixed prefix and the encoded image, which decodes to the canvas.
DataUri(img) == [prefix |-> "data:image/png;base64,", png |-> img]

\* The local variables of render_waveform at its return statement, with the
\* waveform as the loop left it (synthesized), the maximum the test read,
\* whether the division ran, and the unit the waveform is in afterwards (one).
RenderWaveformLocals(frequencies, amplitudes, width, height) ==
    LET t == Linspace(4, width)
        pairs == Zip(frequencies, amplitudes)
        synthesized ==
            [i \in 1 .. width |-> Synthesize(frequencies, amplitudes, pairs, t[i])]
    IN  LET maximum == MaxAbs(synthesized, 1, width)
        IN  LET waveform == IF Guard(maximum)
                            THEN Divide(synthesized, maximum)
                            ELSE synthesized
                one == IF Guard(maximum) THEN Milli ELSE SampleOne
            IN  [pairs       |-> pairs,
                 synthesized |-> synthesized,
                 maximum     |-> maximum,
                 divided     |-> Guard(maximum),
                 waveform    |-> waveform,
                 one         |-> one,
                 y_coords    |-> [i \in 1 .. width |->
                                    ToCoordinate(waveform[i], one, height)]]

\* render_waveform(frequencies, amplitudes, width, height) from its locals.
RenderWaveformResult(frame, width, height) ==
    DataUri(Canvas(width, height, 30,
                   [i \in 1 .. width |-> <<(i - 1) * Milli, frame.y_coords[i]>>],
                   [horizontal |-> height \div 2, vertical |-> 0]))

\* The number of points of the Lissajous curve.
NumPoints == 1000

\* The entry, or 0.0 where there is none.
EntryOrZero(seq, k) == IF Len(seq) >= k THEN seq[k] ELSE 0

\* frequencies[k - 1] if len(frequencies) > k - 1 else 1.0, and the same of
\* amplitudes.
EntryOrDefault(seq, k) == IF Len(seq) >= k THEN seq[k] ELSE Milli

\* The local variables of render_lissajous at its return statement.
RenderLissajousLocals(frequencies, amplitudes, width, height) ==
    LET freq_x == EntryOrDefault(frequencies, 1)
        freq_y == EntryOrDefault(frequencies, 2)
        amp_x  == EntryOrDefault(amplitudes, 1)
        amp_y  == EntryOrDefault(amplitudes, 2)
        t      == Linspace(2, NumPoints)
    IN  [freq_x   |-> freq_x,
         freq_y   |-> freq_y,
         amp_x    |-> amp_x,
         amp_y    |-> amp_y,
         x_coords |-> [i \in 1 .. NumPoints |->
                          ToCoordinate(amp_x * Sin(freq_x * t[i].num, Milli * t[i].den, 0),
                                       SampleOne, width)],
         y_coords |-> [i \in 1 .. NumPoints |->
                          ToCoordinate(amp_y * Sin(freq_y * t[i].num, Milli * t[i].den, 50),
                                       SampleOne, height)]]

\* render_lissajous(frequencies, amplitudes, width, height) from its locals.
RenderLissajousResult(frame, width, height) ==
    DataUri(Canvas(width, height, 50,
                   [i \in 1 .. NumPoints |-> <<frame.x_coords[i], frame.y_coords[i]>>],
                   [horizontal |-> height \div 2, vertical |-> width \div 2]))

\* The sizes render_scope_pattern leaves to the defaults of the renderers.
DefaultWidth == 400
WaveformHeight == 300
LissajousHeight == 400

\* The dict render_scope_pattern returns (server.py).
RenderScopePatternResult(frequencies, amplitudes, pattern_type) ==
    [image        |-> IF pattern_type = "lissajous"
                      THEN RenderLissajousResult(
                              RenderLissajousLocals(frequencies, amplitudes,
                                                    DefaultWidth, LissajousHeight),
                              DefaultWidth, LissajousHeight)
                      ELSE RenderWaveformResult(
                              RenderWaveformLocals(frequencies, amplitudes,
                                                   DefaultWidth, WaveformHeight),
                              DefaultWidth, WaveformHeight),
     description  |-> IF pattern_type = "lissajous"
                      THEN "Lissajous curve - inharmonic relationships create complex patterns"
                      ELSE "Waveform pattern - harmonic series with overtones",
     pattern_type |-> pattern_type,
     frequencies  |-> frequencies,
     amplitudes   |-> amplitudes]

\* Inputs of the renderers: the tones of the profiles cut to every length, with
\* the amplitudes as they are, all 0 and doubled (above 1), tones that cancel,
\* a frequency of 0 and negative values, each also with one sequence longer
\* than the other.
Scaled(seq, s) == [i \in DOMAIN seq |-> seq[i] * s]
AlignedTones ==
    {[frequencies |-> Prefix(InitialProfiles[n].frequencies, k),
      amplitudes  |-> Scaled(Prefix(InitialProfiles[n].amplitudes, k), s)] :
        n \in ProfileNames, k \in 0 .. 5, s \in 0 .. 2}
    \cup {[frequencies |-> <<1000, 1000>>, amplitudes |-> <<1000, -1000>>],
          [frequencies |-> <<0>>, amplitudes |-> <<1000>>],
          [frequencies |-> <<-1500, 2300>>, amplitudes |-> <<500, -700>>]}
Extra(value) == {[i \in 1 .. k |-> value + i] : k \in 0 .. MaxExtra}
Tones ==
    {[frequencies |-> a.frequencies \o e, amplitudes |-> a.amplitudes] :
        a \in AlignedTones, e \in Extra(7000)}
    \cup {[frequencies |-> a.frequencies, amplitudes |-> a.amplitudes \o e] :
            a \in AlignedTones, e \in Extra(900)}
WaveformCanvases == {<<400, 300>>, <<1, 300>>, <<2, 100>>, <<25, 40>>}
LissajousCanvases == {<<400, 400>>, <<100, 60>>}
PatternTones == {a \in AlignedTones : Len(a.frequencies) <= 1}
PatternTypes == {"waveform", "lissajous", "spiral"}

\* OscilloscopeRenderer.render_waveform(frequencies, amplitudes, width, height)
RenderWaveform ==
    /\ pc = "idle"
    /\ \E tones \in Tones, canvas \in WaveformCanvases :
          LET frame == RenderWaveformLocals(tones.frequencies, tones.amplitudes,
                                            canvas[1], canvas[2])
          IN  Returns("render_waveform",
                      [frequencies |-> tones.frequencies, amplitudes |-> tones.amplitudes,
                       width |-> canvas[1], height |-> canvas[2]],
                      RenderWaveformResult(frame, canvas[1], canvas[2]),
                      frame)
    /\ UNCHANGED <<PROFILES, LEVELS, opens, inflight>>

\* OscilloscopeRenderer.render_lissajous(frequencies, amplitudes, width, height)
RenderLissajous ==
    /\ pc = "idle"
    /\ \E tones \in Tones, canvas \in LissajousCanvases :
          LET frame == RenderLissajousLocals(tones.frequencies, tones.amplitudes,
                                             canvas[1], canvas[2])
          IN  Returns("render_lissajous",
                      [frequencies |-> tones.frequencies, amplitudes |-> tones.amplitudes,
                       width |-> canvas[1], height |-> canvas[2]],
                      RenderLissajousResult(frame, canvas[1], canvas[2]),
                      frame)
    /\ UNCHANGED <<PROFILES, LEVELS, opens, inflight>>

\* The tool render_scope_pattern(frequencies, amplitudes, pattern_type)
RenderScopePattern ==
    /\ pc = "idle"
    /\ \E tones \in PatternTones, pattern_type \in PatternTypes :
          Returns("render_scope_pattern",
                  [frequencies |-> tones.frequencies, amplitudes |-> tones.amplitudes,
                   pattern_type |-> pattern_type],
                  RenderScopePatternResult(tones.frequencies, tones.amplitudes, pattern_type),
                  NoLocals)
    /\ UNCHANGED <<PROFILES, LEVELS, opens, inflight>>

NextRender ==
    \/ RenderWaveform
    \/ RenderLissajous
    \/ RenderScopePattern
    \/ Deliver

SpecRender == Init /\ [][NextRender]_vars

(***************************************************************************)
(* Callers that keep what a call returned                                  *)
(*                                                                         *)
(* dict.get hands out the entry of the table itself, and map_colors puts   *)
(* the entry's own frequencies and amplitudes lists into its result: the   *)
(* caller and the table then hold the same list objects.                   *)
(***************************************************************************)

\* The entry of the table that table.get(name, table[default]) hands out.
ResolvedName(table, name, default) == IF name \in DOMAIN table THEN name ELSE default

\* The entry `profile` refers to when map_colors builds its result.
SelectedName(table, color_ratios, complexity_preference) ==
    IF complexity_preference = "simple" THEN ResolvedName(table, "simple", "harmonic_rich")
    ELSE IF complexity_preference = "complex"
         THEN ResolvedName(table, "chaotic", "harmonic_rich")
    ELSE ResolvedName(table, BaseProfile(color_ratios), "harmonic_rich")

\* The entry of PROFILES whose lists the value just returned shares.
SharedEntry ==
    IF call.op = "map_colors"
    THEN SelectedName(PROFILES, call.args.color_ratios, call.args.complexity_preference)
    ELSE ResolvedName(PROFILES, call.args.name, "harmonic_rich")

\* How many values callers have appended to the lists of the table.
Appended(table) ==
    LET Grown(name) ==
            (Len(table[name].frequencies) - Len(InitialProfiles[name].frequencies))
          + (Len(table[name].amplitudes) - Len(InitialProfiles[name].amplitudes))
    IN  Grown("simple") + Grown("harmonic_rich") + Grown("complex_lissajous")
          + Grown("chaotic")

\* The caller takes the value map_colors or HarmonicProfiles.get returned and
\* appends a number to its frequencies or amplitudes list, for instance
\* result["frequencies"].append(0.5).  The list is the table's own.
CallerAppends ==
    /\ pc = "returned"
    /\ call.op \in {"map_colors", "profiles_get"}
    /\ ~raised
    /\ Appended(PROFILES) < MaxAppends
    /\ \E field \in {"frequencies", "amplitudes"} :
          PROFILES' = [PROFILES EXCEPT ![SharedEntry][field] = Append(@, 500)]
    /\ pc' = "idle"
    /\ call' = NoCall
    /\ result' = NoResult
    /\ raised' = FALSE
    /\ locals' = NoLocals
    /\ opens' = 0
    /\ UNCHANGED <<LEVELS, inflight>>

NextCallers ==
    \/ ProfilesGet
    \/ MapColors
    \/ Deliver
    \/ CallerAppends

SpecCallers == Init /\ [][NextCallers]_vars

(***************************************************************************)
(* Calls in flight at the same time                                        *)
(*                                                                         *)
(* Each thread runs one call in steps: it begins, the calls that look an   *)
(* entry up take their reference to it, and the call finishes by reading   *)
(* through the reference and building its result.  The steps of different  *)
(* threads interleave freely.                                              *)
(***************************************************************************)

Threads == 1 .. NumThreads

\* HarmonicProfiles.list_all
ProfilesListAll(table) ==
    [name \in DOMAIN table |->
        [description |-> table[name].description, complexity |-> table[name].complexity]]

\* ConstraintLevels.list_all
LevelsListAll(table) ==
    [name \in DOMAIN table |->
        [description     |-> table[name].description,
         fidelity        |-> table[name].fidelity,
         color_tolerance |-> table[name].color_tolerance]]

\* dict.setdefault in the place of dict.get: an unknown name is entered in the
\* table with the default entry.
TableAfterSetdefault(table, name, default) ==
    [n \in DOMAIN table \cup {name} |-> IF n \in DOMAIN table THEN table[n] ELSE table[default]]

\* The table after table.get(name, table[default]): dict.get enters nothing.
TableAfterGet(table, name, default) == table

\* The return statement of map_colors, read through the reference `profile`.
MapColorsReturn(profile, color_ratios) ==
    [base_profile  |-> BaseProfile(color_ratios),
     frequencies   |-> profile.frequencies,
     amplitudes    |-> profile.amplitudes,
     description   |-> profile.description,
     complexity    |-> profile.complexity,
     color_mapping |->
        [warm_ratio    |-> DictGet(color_ratios, "warm_ratio", DefaultWarm),
         cool_ratio    |-> DictGet(color_ratios, "cool_ratio", DefaultCool),
         neutral_ratio |-> DictGet(color_ratios, "neutral_ratio", DefaultNeutral)]]

\* The calls the threads make.
ConcurrentCalls ==
    {[op |-> "map_colors",
      args |-> [color_ratios |->
                   [warm_ratio |-> 520, cool_ratio |-> 280, neutral_ratio |-> 200,
                    color_balance |-> [warm_heavy |-> TRUE, cool_heavy |-> FALSE,
                                       balanced |-> FALSE]],
                complexity_preference |-> p]] : p \in {"balanced", "complex"}}
    \cup {[op |-> "map_colors",
           args |-> [color_ratios |-> [x \in {} |-> 0],
                     complexity_preference |-> "simple"]],
          [op |-> "translate",
           args |-> [constraint_level |-> "strict", direction |-> "forward"]],
          [op |-> "translate",
           args |-> [constraint_level |-> "nonexistent", direction |-> "reverse"]]}
    \cup {[op |-> "profiles_get", args |-> [name |-> n]] : n \in {"chaotic", "nonexistent"}}
    \cup {[op |-> "levels_get", args |-> [name |-> n]] : n \in {"loose", "nonexistent"}}
    \cup {[op |-> "profiles_list_all", args |-> <<>>],
          [op |-> "levels_list_all", args |-> <<>>]}
    \cup {[op |-> "extract", args |-> [image |-> image]] :
            image \in {i \in FaultyImages : i.type = "FileNotFoundError"}
                         \cup {Decoded(<<[rgb |-> <<2, 0, 0>>, n |-> Total]>>,
                                       <<[rgb |-> <<2, 0, 0>>, n |-> SampleTotal]>>)}}
    \cup {[op |-> "render_waveform",
           args |-> [frequencies |-> <<1000, 2000>>, amplitudes |-> <<1000, 500>>,
                     width |-> 25, height |-> 40]],
          [op |-> "render_lissajous",
           args |-> [frequencies |-> <<1000, 1500>>, amplitudes |-> <<1000, 700>>,
                     width |-> 200, height |-> 200]]}

LooksUp == {"map_colors", "translate", "profiles_get", "levels_get"}

\* A thread begins a call.
Begin(th) ==
    /\ inflight[th].pc = "idle"
    /\ \E c \in ConcurrentCalls :
          inflight' = [inflight EXCEPT ![th] =
                          [pc |-> "called", op |-> c.op, args |-> c.args,
                           held |-> "", result |-> NoResult]]
    /\ UNCHANGED <<PROFILES, LEVELS, pc, call, result, raised, locals, opens>>

\* The lookups of the call: HarmonicProfiles.get or ConstraintLevels.get hands
\* the thread a reference to an entry of the table.
Lookup(th) ==
    LET c == inflight[th]
    IN  /\ c.pc = "called"
        /\ c.op \in LooksUp
        /\ IF c.op \in {"map_colors", "profiles_get"}
           THEN LET name == IF c.op = "profiles_get" THEN c.args.name
                            ELSE IF c.args.complexity_preference = "simple" THEN "simple"
                            ELSE IF c.args.complexity_preference = "complex" THEN "chaotic"
                            ELSE BaseProfile(c.args.color_ratios)
                IN  /\ inflight' = [inflight EXCEPT
                                       ![th].pc = "holding",
                                       ![th].held = ResolvedName(PROFILES, name, "harmonic_rich")]
                    /\ PROFILES' = TableAfterGet(PROFILES, name, "harmonic_rich")
                    /\ UNCHANGED LEVELS
           ELSE LET name == IF c.op = "levels_get" THEN c.args.name
                            ELSE c.args.constraint_level
                IN  /\ inflight' = [inflight EXCEPT
                                       ![th].pc = "holding",
                                       ![th].held = ResolvedName(LEVELS, name, "balanced")]
                    /\ LEVELS' = TableAfterGet(LEVELS, name, "balanced")
                    /\ UNCHANGED PROFILES
        /\ UNCHANGED <<pc, call, result, raised, locals, opens>>

\* What the call of a thread returns, the tables read as they are now.
Finished(c) ==
    CASE c.op = "map_colors" -> MapColorsReturn(PROFILES[c.held], c.args.color_ratios)
      [] c.op = "translate" ->
            [TranslateResult(LEVELS, c.held, c.args.direction)
                EXCEPT !.constraint_level = c.args.constraint_level]
      [] c.op = "profiles_get" -> PROFILES[c.held]
      [] c.op = "levels_get" -> LEVELS[c.held]
      [] c.op = "profiles_list_all" -> ProfilesListAll(PROFILES)
      [] c.op = "levels_list_all" -> LevelsListAll(LEVELS)
      [] c.op = "extract" -> ExtractResult(c.args.image)
      [] c.op = "render_waveform" ->
            RenderWaveformResult(
                RenderWaveformLocals(c.args.frequencies, c.args.amplitudes,
                                     c.args.width, c.args.height),
                c.args.width, c.args.height)
      [] c.op = "render_lissajous" ->
            RenderLissajousResult(
                RenderLissajousLocals(c.args.frequencies, c.args.amplitudes,
                                      c.args.width, c.args.height),
                c.args.width, c.args.height)

\* The call of a thread builds its result and returns.
Finish(th) ==
    LET c == inflight[th]
    IN  /\ \/ c.pc = "holding"
           \/ c.pc = "called" /\ c.op \notin LooksUp
        /\ inflight' = [inflight EXCEPT ![th].pc = "done", ![th].result = Finished(c)]
        /\ UNCHANGED <<PROFILES, LEVELS, pc, call, result, raised, locals, opens>>

\* The caller of a thread takes the result.
Collect(th) ==
    /\ inflight[th].pc = "done"
    /\ inflight' = [inflight EXCEPT ![th] = NotInFlight]
    /\ UNCHANGED <<PROFILES, LEVELS, pc, call, result, raised, locals, opens>>

NextConcurrent ==
    \E th \in Threads :
        \/ Begin(th)
        \/ Lookup(th)
        \/ Finish(th)
        \/ Collect(th)

SpecConcurrent == Init /\ [][NextConcurrent]_vars

(***************************************************************************)
(* Properties                                                              *)
(***************************************************************************)

Returned(op) == pc = "returned" /\ call.op = op

\* The inputs of a finished map_colors call, read as the caller wrote them.
GivenBalanced ==
    LET cr == call.args.color_ratios
    IN  /\ "color_balance" \in DOMAIN cr
        /\ "balanced" \in DOMAIN cr.color_balance
        /\ cr.color_balance.balanced
GivenWarm ==
    LET cr == call.args.color_ratios
    IN  IF "warm_ratio" \in DOMAIN cr THEN cr.warm_ratio ELSE 330
GivenCool ==
    LET cr == call.args.color_ratios
    IN  IF "cool_ratio" \in DOMAIN cr THEN cr.cool_ratio ELSE 330

\* The base profile the ordered rule of the specification names.
RuleBase ==
    CASE GivenBalanced -> "harmonic_rich"
      [] ~GivenBalanced /\ GivenWarm > 450 -> "complex_lissajous"
      [] ~GivenBalanced /\ GivenWarm <= 450 /\ GivenCool > 450 -> "complex_lissajous"
      [] OTHER -> "harmonic_rich"

\* C1: map_colors names the base profile by the ordered rule: balanced flag
\* true gives "harmonic_rich" whatever the ratios are; otherwise warm_ratio >
\* 0.45 gives "complex_lissajous"; otherwise cool_ratio > 0.45 gives
\* "complex_lissajous"; otherwise (a ratio of exactly 0.45, a missing flag)
\* "harmonic_rich".
C1_BaseProfileRule ==
    Returned("map_colors") =>
        /\ ~raised
        /\ result.base_profile = RuleBase
        /\ (GivenBalanced /\ (GivenWarm > 450 \/ GivenCool > 450))
              => result.base_profile = "harmonic_rich"
        /\ (~GivenBalanced /\ GivenWarm = 450 /\ GivenCool <= 450)
              => result.base_profile = "harmonic_rich"

\* C1's case: a dominant warm ratio with the balanced flag set still gives
\* "harmonic_rich".
C1_Witness ==
    /\ Returned("map_colors")
    /\ GivenBalanced
    /\ GivenWarm > 450
    /\ result.base_profile = "harmonic_rich"

\* The four profile fields of a map_colors result.
ProfileFields(r) ==
    [frequencies |-> r.frequencies, amplitudes |-> r.amplitudes,
     description |-> r.description, complexity |-> r.complexity]

\* C2: the preference overrides the colour-derived selection: "simple" returns
\* the fields of the "simple" profile, "complex" those of "chaotic", any other
\* preference those of the colour-derived base profile.
C2_PreferenceOverrides ==
    Returned("map_colors") =>
        /\ ~raised
        /\ ProfileFields(result) =
              CASE call.args.complexity_preference = "simple" -> InitialProfiles["simple"]
                [] call.args.complexity_preference = "complex" -> InitialProfiles["chaotic"]
                [] OTHER -> InitialProfiles[RuleBase]

\* C2's case: the colours choose "complex_lissajous" and the preference
\* "simple" replaces it by the single tone.
C2_Witness ==
    /\ Returned("map_colors")
    /\ call.args.complexity_preference = "simple"
    /\ RuleBase = "complex_lissajous"
    /\ result.frequencies = <<1000>>
    /\ result.complexity = "low"

\* A finished extract call that decoded its image.
Extracted == Returned("extract") /\ call.args.image.fault = "none"

\* C3: in every result of extract the flags agree with the ratios reported in
\* the same result: warm_heavy exactly when the reported warm_ratio > 0.4,
\* cool_heavy exactly when the reported cool_ratio > 0.4, balanced exactly when
\* the reported ratios are less than 0.15 apart.  (The reported ratios are
\* thousandths; they are compared as the decimal numbers they print as.)
C3_FlagsAgreeWithReportedRatios ==
    Extracted =>
        /\ result.color_balance.warm_heavy <=> (result.warm_ratio > 400)
        /\ result.color_balance.cool_heavy <=> (result.cool_ratio > 400)
        /\ result.color_balance.balanced
              <=> (Abs(result.warm_ratio - result.cool_ratio) < 150)

\* C4: the three reported ratios of a decoded image add up to between 0.99
\* and 1.01, and each lies in [0, 1].
C4_RatiosSumToOne ==
    Extracted =>
        /\ result.warm_ratio + result.cool_ratio + result.neutral_ratio >= 990
        /\ result.warm_ratio + result.cool_ratio + result.neutral_ratio <= 1010
        /\ \A ratio \in {result.warm_ratio, result.cool_ratio, result.neutral_ratio} :
              0 <= ratio /\ ratio <= 1000

\* C4's case: three classes present and the rounded ratios do not add up to
\* exactly 1.0.
C4_Witness ==
    /\ Extracted
    /\ result.warm_ratio > 0 /\ result.cool_ratio > 0 /\ result.neutral_ratio > 0
    /\ result.warm_ratio + result.cool_ratio + result.neutral_ratio # 1000

\* The number of pixels in the runs `idx` of `pixels`.
RECURSIVE PixelsIn(_, _)
PixelsIn(pixels, idx) ==
    IF idx = {} THEN 0
    ELSE LET i == CHOOSE j \in idx : TRUE
         IN  pixels[i].n + PixelsIn(pixels, idx \ {i})

\* The runs of the image whose red (blue) channel is strictly the greatest.
RedGreatest(pixels) ==
    {i \in DOMAIN pixels : pixels[i].rgb[1] > pixels[i].rgb[2]
                           /\ pixels[i].rgb[1] > pixels[i].rgb[3]}
BlueGreatest(pixels) ==
    {i \in DOMAIN pixels : pixels[i].rgb[3] > pixels[i].rgb[2]
                           /\ pixels[i].rgb[3] > pixels[i].rgb[1]}

\* C5: every pixel is counted in exactly one class: warm iff red is strictly
\* the greatest channel, cool iff blue is, neutral otherwise; so the three
\* counts add up to the 256 * 256 pixels, and a solid image whose red channel
\* is strictly the greatest has warm_ratio 1.0 and warm_heavy true.
C5_PixelClasses ==
    Extracted =>
        LET pixels == call.args.image.pixels
            red == RedGreatest(pixels)
            blue == BlueGreatest(pixels)
        IN  /\ red \cap blue = {}
            /\ locals.warm_count = PixelsIn(pixels, red)
            /\ locals.cool_count = PixelsIn(pixels, blue)
            /\ locals.neutral_count = PixelsIn(pixels, DOMAIN pixels \ (red \cup blue))
            /\ locals.warm_count + locals.cool_count + locals.neutral_count = 256 * 256
            /\ locals.total = 256 * 256
            /\ (Len(pixels) = 1 /\ red = {1})
                  => /\ result.warm_ratio = 1000
                     /\ result.color_balance.warm_heavy

\* C5's case: the solid image (200, 100, 50) is all warm.
C5_Witness ==
    /\ Extracted
    /\ call.args.image.pixels = <<[rgb |-> <<200, 100, 50>>, n |-> 256 * 256]>>
    /\ locals.warm_count = 256 * 256
    /\ result.warm_ratio = 1000
    /\ result.color_balance.warm_heavy

\* The sum of the reported percentages of a dominant_colors list.
RECURSIVE SumPercentages(_)
SumPercentages(colors) ==
    IF colors = <<>> THEN 0
    ELSE Head(colors).percentage + SumPercentages(Tail(colors))

NonIncreasing(colors) ==
    \A i \in 1 .. Len(colors) - 1 : colors[i].percentage >= colors[i + 1].percentage

\* C6 as stated: dominant_colors has at most 5 entries, in non-increasing
\* order of percentage, and the reported percentages add up to at most 1.0.
C6_PercentagesAtMostOne ==
    Extracted =>
        /\ Len(result.dominant_colors) <= 5
        /\ NonIncreasing(result.dominant_colors)
        /\ SumPercentages(result.dominant_colors) <= 1000

\* C6 amended: dominant_colors has at most 5 entries, in non-increasing order
\* of percentage; the exact shares of the listed colours add up to at most
\* 1.0 and the reported (rounded) percentages to less than 1.0025.
C6_PercentagesWithinRounding ==
    Extracted =>
        /\ Len(result.dominant_colors) <= 5
        /\ NonIncreasing(result.dominant_colors)
        /\ NumPixels(locals.sorted_colors) <= 64 * 64
        /\ 2 * SumPercentages(result.dominant_colors) < 2005

\* C6's case: five colours listed whose shares all round up, reported as
\* 1.002 in sum, from a downsample that met the largest of them second.
C6_Witness ==
    /\ Extracted
    /\ Len(result.dominant_colors) = 5
    /\ SumPercentages(result.dominant_colors) = 1002
    /\ call.args.image.small[2].n > call.args.image.small[1].n

\* C7: a failing open or decode never leaves extract as an exception: the
\* call returns once, a dict holding "error" (a string) and no ratio field,
\* after one attempt at the file, and the tables are as they were.
C7_ExtractReportsFaults ==
    /\ (Returned("extract") /\ call.args.image.fault # "none") =>
          /\ ~raised
          /\ DOMAIN result = {"error"}
          /\ result.error = call.args.image.message
          /\ opens = 1
          /\ PROFILES = InitialProfiles
          /\ LEVELS = InitialLevels
    /\ Returned("extract") => opens = 1
    /\ pc = "idle" => (PROFILES = InitialProfiles /\ LEVELS = InitialLevels)

\* C7's case: the file opens but does not decode, and extract returns the
\* error value.
C7_Witness ==
    /\ Returned("extract")
    /\ call.args.image.fault = "convert"
    /\ ~raised
    /\ result = [error |-> "image file is truncated"]

\* The numeric fields and the suggested profile of a translate result.
LevelFields(r) ==
    [fidelity |-> r.fidelity, color_tolerance |-> r.color_tolerance,
     complexity_delta |-> r.complexity_delta, profile |-> r.suggested_harmonic_profile]

KnownLevels == {"very_loose", "loose", "balanced", "strict", "very_strict"}

\* C8: translate with a level id outside the five known ones does not fail and
\* returns the parameters of "balanced" (0.65, 0.75, 0.25, harmonic_rich);
\* with a known id it returns that entry's parameters.
C8_UnknownLevelFallsBack ==
    Returned("translate") =>
        /\ ~raised
        /\ call.args.constraint_level \notin KnownLevels =>
              LevelFields(result) =
                 [fidelity |-> 650, color_tolerance |-> 750, complexity_delta |-> 250,
                  profile |-> "harmonic_rich"]
        /\ call.args.constraint_level \in KnownLevels =>
              LET own == InitialLevels[call.args.constraint_level]
              IN  LevelFields(result) =
                     [fidelity |-> own.fidelity, color_tolerance |-> own.color_tolerance,
                      complexity_delta |-> own.complexity_delta, profile |-> own.profile]

\* C8's case: translate("unknown_id", "forward") returns the balanced numbers.
C8_Witness ==
    /\ Returned("translate")
    /\ call.args.constraint_level = "unknown_id"
    /\ call.args.direction = "forward"
    /\ result.fidelity = 650
    /\ result.color_tolerance = 750

KnownProfiles == {"simple", "harmonic_rich", "complex_lissajous", "chaotic"}

\* C9: HarmonicProfiles.get with an identifier outside the four known ones
\* returns the "harmonic_rich" entry and does not fail; with a known identifier
\* it returns that identifier's entry.
C9_UnknownProfileFallsBack ==
    Returned("profiles_get") =>
        /\ ~raised
        /\ call.args.name \notin KnownProfiles => result = InitialProfiles["harmonic_rich"]
        /\ call.args.name \in KnownProfiles => result = InitialProfiles[call.args.name]

\* C9's case: get("nonexistent") returns the four-tone harmonic_rich entry.
C9_Witness ==
    /\ Returned("profiles_get")
    /\ call.args.name = "nonexistent"
    /\ result.complexity = "medium"
    /\ result.frequencies = <<1000, 2000, 3000, 4000>>

CanonicalOrder == <<"very_strict", "strict", "balanced", "loose", "very_loose">>

\* C10: along very_strict, strict, balanced, loose, very_loose the fidelity is
\* strictly decreasing and the color_tolerance non-increasing, and every
\* level's fidelity, color_tolerance and complexity_delta lies in [0, 1].
C10_LevelProgression ==
    /\ \A i \in 1 .. Len(CanonicalOrder) - 1 :
          /\ LEVELS[CanonicalOrder[i]].fidelity > LEVELS[CanonicalOrder[i + 1]].fidelity
          /\ LEVELS[CanonicalOrder[i]].color_tolerance
                >= LEVELS[CanonicalOrder[i + 1]].color_tolerance
    /\ \A name \in DOMAIN LEVELS :
          \A x \in {LEVELS[name].fidelity, LEVELS[name].color_tolerance,
                    LEVELS[name].complexity_delta} : 0 <= x /\ x <= 1000
    /\ Returned("levels_get") /\ call.args.name \in KnownLevels =>
          /\ 0 <= result.fidelity /\ result.fidelity <= 1000
          /\ \A i \in 1 .. Len(CanonicalOrder) - 1 :
                call.args.name = CanonicalOrder[i] =>
                    result.fidelity > LEVELS[CanonicalOrder[i + 1]].fidelity

\* C10's case: the lookups along the order return decreasing fidelities; here
\* the middle one.
C10_Witness ==
    /\ Returned("levels_get")
    /\ call.args.name = "balanced"
    /\ result.fidelity < LEVELS["strict"].fidelity
    /\ result.fidelity > LEVELS["loose"].fidelity

\* C11: every entry of PROFILES has frequencies and amplitudes of equal,
\* non-zero length, so every result of map_colors, whatever the colours and the
\* preference, carries non-empty frequencies and amplitudes of equal length.
C11_ParallelSequences ==
    /\ \A name \in DOMAIN PROFILES :
          /\ Len(PROFILES[name].frequencies) = Len(PROFILES[name].amplitudes)
          /\ Len(PROFILES[name].frequencies) > 0
    /\ Returned("map_colors") =>
          /\ ~raised
          /\ Len(result.frequencies) = Len(result.amplitudes)
          /\ Len(result.frequencies) > 0

\* C11's case: the preference "complex" returns the five tones of "chaotic"
\* with their five amplitudes.
C11_Witness ==
    /\ Returned("map_colors")
    /\ call.args.complexity_preference = "complex"
    /\ Len(result.frequencies) = 5
    /\ Len(result.amplitudes) = 5

\* The entry translate looks up: the level's own, or "balanced".
LookedUpLevel ==
    IF call.args.constraint_level \in KnownLevels
    THEN InitialLevels[call.args.constraint_level]
    ELSE InitialLevels["balanced"]

\* C12 as stated: the narrative is the sentence of the direction ("Transform
\* the input image with " for "forward", "Guide image generation from user
\* prompt with " for "reverse") followed by the description of the looked-up
\* level, and the numeric fields do not depend on the direction.
C12_NarrativeEndsWithDescription ==
    Returned("translate") =>
        /\ call.args.direction = "forward" =>
              result.narrative
                 = "Transform the input image with " \o LookedUpLevel.description
        /\ call.args.direction = "reverse" =>
              result.narrative
                 = "Guide image generation from user prompt with "
                      \o LookedUpLevel.description
        /\ LevelFields(result) =
              [fidelity |-> LookedUpLevel.fidelity,
               color_tolerance |-> LookedUpLevel.color_tolerance,
               complexity_delta |-> LookedUpLevel.complexity_delta,
               profile |-> LookedUpLevel.profile]

\* The descriptions of the five levels in lower case.
LowerCased ==
    [d \in {InitialLevels[n].description : n \in KnownLevels} |->
        CASE d = "Loose interpretation, significant creative freedom" ->
                "loose interpretation, significant creative freedom"
          [] d = "Relaxed constraints, creative exploration" ->
                "relaxed constraints, creative exploration"
          [] d = "Balanced between constraint and freedom" ->
                "balanced between constraint and freedom"
          [] d = "Tight harmonic adherence, minimal deviation" ->
                "tight harmonic adherence, minimal deviation"
          [] d = "Strict fidelity to structure and color ratios" ->
                "strict fidelity to structure and color ratios"]

\* C12 amended: the narrative is the sentence of the direction followed by
\* the looked-up level's description in lower case; the numeric fields do not
\* depend on the direction.
C12_NarrativeByDirection ==
    Returned("translate") =>
        /\ ~raised
        /\ call.args.direction = "forward" =>
              result.narrative
                 = "Transform the input image with "
                      \o LowerCased[LookedUpLevel.description]
        /\ call.args.direction = "reverse" =>
              result.narrative
                 = "Guide image generation from user prompt with "
                      \o LowerCased[LookedUpLevel.description]
        /\ LevelFields(result) =
              [fidelity |-> LookedUpLevel.fidelity,
               color_tolerance |-> LookedUpLevel.color_tolerance,
               complexity_delta |-> LookedUpLevel.complexity_delta,
               profile |-> LookedUpLevel.profile]

\* C12's case: translate("strict", "reverse") gives the guide-generation
\* sentence with the numbers of "strict".
C12_Witness ==
    /\ Returned("translate")
    /\ call.args.constraint_level = "strict"
    /\ call.args.direction = "reverse"
    /\ result.narrative
          = "Guide image generation from user prompt with tight harmonic adherence, minimal deviation"
    /\ result.fidelity = 800

\* C13: the instruction strings carry the integer percentages fidelity * 100,
\* color_tolerance * 100 and complexity_delta * 100 * 10; the last is ten times
\* the plain percentage of complexity_delta (250 for balanced, 600 for
\* very_loose) and is not capped at 100.
C13_InstructionPercentages ==
    Returned("translate") =>
        /\ ~raised
        /\ result.instructions.fidelity
              = "Maintain " \o ToString(LookedUpLevel.fidelity \div 10)
                   \o "% structural fidelity to source"
        /\ result.instructions.color
              = "Keep color ratios within "
                   \o ToString(LookedUpLevel.color_tolerance \div 10) \o "% tolerance"
        /\ result.instructions.complexity
              = "Allow " \o ToString(10 * (LookedUpLevel.complexity_delta \div 10))
                   \o "% complexity variation"
        /\ call.args.constraint_level = "balanced"
              => result.instructions.complexity = "Allow 250% complexity variation"
        /\ call.args.constraint_level = "very_loose"
              => result.instructions.complexity = "Allow 600% complexity variation"

\* C13's case: very_loose allows 600%, past 100.
C13_Witness ==
    /\ Returned("translate")
    /\ call.args.constraint_level = "very_loose"
    /\ result.instructions.complexity = "Allow 600% complexity variation"
    /\ result.instructions.fidelity = "Maintain 30% structural fidelity to source"

\* C14: render_waveform never divides by zero, the division by the maximum
\* absolute sample runs only when that maximum is > 0; for every non-empty
\* frequency and amplitude input, all-zero amplitudes included, the call
\* completes and returns a string that starts with "data:image/png;base64,"
\* for an image of the requested width and height.
C14_WaveformNeverDividesByZero ==
    Returned("render_waveform") =>
        /\ locals.divided => locals.maximum > 0
        /\ (Len(call.args.frequencies) > 0 /\ Len(call.args.amplitudes) > 0) =>
              /\ ~raised
              /\ result.prefix = "data:image/png;base64,"
              /\ result.png.size = <<call.args.width, call.args.height>>

\* C14's case: amplitudes that are all 0 give a maximum of 0, the division is
\* skipped and the data URI is returned.
C14_Witness ==
    /\ Returned("render_waveform")
    /\ Len(call.args.amplitudes) = 3
    /\ Len(call.args.frequencies) = 3
    /\ \A k \in 1 .. 3 : call.args.amplitudes[k] = 0
    /\ locals.maximum = 0
    /\ ~locals.divided
    /\ result.prefix = "data:image/png;base64,"
    /\ result.png.size = <<400, 300>>

\* The entry k of a sequence, or 1.0 when the sequence is shorter.
Supplied(seq, k) == IF k <= Len(seq) THEN seq[k] ELSE 1000

\* C15: neither renderer raises on empty or too-short sequences;
\* render_lissajous uses 1.0 for each of freq_x, freq_y, amp_x, amp_y that is
\* absent, each independently of the others, and render_scope_pattern with
\* empty sequences returns a data URI for both pattern kinds.
C15_DefaultsForMissingEntries ==
    /\ Returned("render_waveform") =>
          ~raised /\ result.prefix = "data:image/png;base64,"
    /\ Returned("render_lissajous") =>
          /\ ~raised
          /\ result.prefix = "data:image/png;base64,"
          /\ locals.freq_x = Supplied(call.args.frequencies, 1)
          /\ locals.freq_y = Supplied(call.args.frequencies, 2)
          /\ locals.amp_x = Supplied(call.args.amplitudes, 1)
          /\ locals.amp_y = Supplied(call.args.amplitudes, 2)
    /\ (Returned("render_scope_pattern") /\ call.args.frequencies = <<>>
          /\ call.args.amplitudes = <<>>) =>
          /\ ~raised
          /\ result.image.prefix = "data:image/png;base64,"
          /\ result.image.png.size
                = IF call.args.pattern_type = "lissajous" THEN <<400, 400>> ELSE <<400, 300>>

\* C15's case: two frequencies with one amplitude give amp_y = 1.0 beside the
\* two frequencies and the one amplitude that were supplied.
C15_Witness ==
    /\ Returned("render_lissajous")
    /\ Len(call.args.frequencies) = 2
    /\ Len(call.args.amplitudes) = 1
    /\ call.args.amplitudes[1] # 1000
    /\ locals.amp_x = call.args.amplitudes[1]
    /\ locals.amp_y = 1000
    /\ locals.freq_y = call.args.frequencies[2]

\* The shorter of the two lengths of a finished renderer call.
Shorter ==
    IF Len(call.args.frequencies) < Len(call.args.amplitudes)
    THEN Len(call.args.frequencies) ELSE Len(call.args.amplitudes)

\* The sum of amp * sin(freq * t) over the pairs 1 .. k of a finished
\* render_waveform call at sample i.
RECURSIVE SumOfPairs(_, _)
SumOfPairs(k, i) ==
    IF k = 0 THEN 0
    ELSE SumOfPairs(k - 1, i)
            + call.args.amplitudes[k]
                 * Sin(call.args.frequencies[k] * 4 * (i - 1),
                       1000 * (IF call.args.width > 1 THEN call.args.width - 1 ELSE 1), 0)

\* C18: render_waveform sums exactly the first min(len(frequencies),
\* len(amplitudes)) pairs: entries of the longer sequence beyond the shorter
\* one have no effect on the waveform or on the image, and mismatched lengths
\* never fail.
C18_ZipTruncation ==
    Returned("render_waveform") =>
        /\ ~raised
        /\ locals.pairs = Shorter
        /\ \A i \in 1 .. call.args.width : locals.synthesized[i] = SumOfPairs(Shorter, i)
        /\ result =
              RenderWaveformResult(
                  RenderWaveformLocals(Prefix(call.args.frequencies, Shorter),
                                       Prefix(call.args.amplitudes, Shorter),
                                       call.args.width, call.args.height),
                  call.args.width, call.args.height)

\* C18's case: more frequencies than amplitudes, and a waveform that is not
\* flat.
C18_Witness ==
    /\ Returned("render_waveform")
    /\ Len(call.args.frequencies) > Len(call.args.amplitudes)
    /\ Len(call.args.amplitudes) = 2
    /\ locals.pairs = 2
    /\ locals.maximum > 0

\* C19: in render_lissajous every plotted point lies inside the 20px margin on
\* both axes, 20 <= x_coord <= width - 20 and 20 <= y_coord <= height - 20, for
\* all inputs, amplitudes greater than 1 included.
C19_LissajousInsideMargin ==
    Returned("render_lissajous") =>
        \A i \in 1 .. NumPoints :
            /\ 20 * 1000 <= locals.x_coords[i]
            /\ locals.x_coords[i] <= (call.args.width - 20) * 1000
            /\ 20 * 1000 <= locals.y_coords[i]
            /\ locals.y_coords[i] <= (call.args.height - 20) * 1000

\* C20: in render_waveform every plotted row lies in [20, height - 20]; when
\* the synthesized waveform is not identically zero the normalization makes
\* its maximum absolute value exactly 1, so some sample is at row 20 or at row
\* height - 20; when it is identically zero every sample is at row height / 2.
C20_WaveformRows ==
    Returned("render_waveform") =>
        LET samples == 1 .. call.args.width
            top     == 20 * 1000
            bottom  == (call.args.height - 20) * 1000
        IN  /\ \A i \in samples :
                  top <= locals.y_coords[i] /\ locals.y_coords[i] <= bottom
            /\ (\E i \in samples : locals.synthesized[i] # 0) =>
                  /\ \A i \in samples : Abs(locals.waveform[i]) <= locals.one
                  /\ \E i \in samples : Abs(locals.waveform[i]) = locals.one
                  /\ locals.one = 1000
                  /\ \E i \in samples : locals.y_coords[i] \in {top, bottom}
            /\ (\A i \in samples : locals.synthesized[i] = 0) =>
                  \A i \in samples : 2 * locals.y_coords[i] = call.args.height * 1000

\* C20's case: a waveform that is not zero and a trace that touches row 20 of
\* a canvas 300 high without being flat.
C20_Witness ==
    /\ Returned("render_waveform")
    /\ call.args.height = 300
    /\ locals.maximum > 0
    /\ \E i \in 1 .. call.args.width : locals.y_coords[i] = 20 * 1000
    /\ \E i \in 1 .. call.args.width : locals.y_coords[i] > 150 * 1000

\* What a call returns when it runs alone on the tables as the module defines
\* them.
Alone(c) ==
    CASE c.op = "map_colors" ->
            MapColorsResult(InitialProfiles, c.args.color_ratios,
                            c.args.complexity_preference)
      [] c.op = "translate" ->
            TranslateResult(InitialLevels, c.args.constraint_level, c.args.direction)
      [] c.op = "profiles_get" -> HarmonicProfilesGet(InitialProfiles, c.args.name)
      [] c.op = "levels_get" -> ConstraintLevelsGet(InitialLevels, c.args.name)
      [] c.op = "profiles_list_all" -> ProfilesListAll(InitialProfiles)
      [] c.op = "levels_list_all" -> LevelsListAll(InitialLevels)
      [] c.op = "extract" -> ExtractResult(c.args.image)
      [] c.op = "render_waveform" ->
            RenderWaveformResult(
                RenderWaveformLocals(c.args.frequencies, c.args.amplitudes,
                                     c.args.width, c.args.height),
                c.args.width, c.args.height)
      [] c.op = "render_lissajous" ->
            RenderLissajousResult(
                RenderLissajousLocals(c.args.frequencies, c.args.amplitudes,
                                      c.args.width, c.args.height),
                c.args.width, c.args.height)

\* C16: PROFILES and LEVELS are never changed: after any sequence and any
\* interleaving of extract, map_colors, translate, render_waveform,
\* render_lissajous, get and list_all calls both tables hold their initial
\* contents, and the result of each call equals that of the call run alone.
C16_TablesNeverChange ==
    /\ PROFILES = InitialProfiles
    /\ LEVELS = InitialLevels
    /\ \A th \in Threads :
          inflight[th].pc = "done" => inflight[th].result = Alone(inflight[th])

\* C16's case: map_colors has returned on one thread while the other thread,
\* which looked up a name that is in no table, still holds its reference.
C16_Witness ==
    /\ inflight[1].pc = "done"
    /\ inflight[1].op = "map_colors"
    /\ inflight[1].result.base_profile = "complex_lissajous"
    /\ inflight[2].pc = "holding"
    /\ inflight[2].op = "profiles_get"
    /\ inflight[2].args.name = "nonexistent"
    /\ inflight[2].held = "harmonic_rich"

\* C17: map_colors is deterministic: two calls with the same colours, flag and
\* preference return the same selection whatever calls were made in between
\* and whatever callers did with the values returned earlier.  The first call
\* of a behaviour returns the selection from the tables as the module defines
\* them, so every later call must return that selection too.
C17_MapperDeterministic ==
    Returned("map_colors") =>
        LET first == MapColorsResult(InitialProfiles, call.args.color_ratios,
                                     call.args.complexity_preference)
        IN  /\ result.base_profile = first.base_profile
            /\ ProfileFields(result) = ProfileFields(first)

\* The neutral ratio of a finished map_colors call, read as the caller wrote it.
GivenNeutral ==
    LET cr == call.args.color_ratios
    IN  IF "neutral_ratio" \in DOMAIN cr THEN cr.neutral_ratio ELSE 340

\* C21: the base_profile map_colors returns depends on the colours only and
\* never on the preference; the returned frequencies, amplitudes, description
\* and complexity are those of the profile base_profile names exactly when the
\* preference is neither "simple" nor "complex"; color_mapping echoes the
\* input ratios unchanged, 0.33 / 0.33 / 0.34 where they are absent.
C21_BaseProfileIgnoresPreference ==
    Returned("map_colors") =>
        /\ ~raised
        /\ result.base_profile = RuleBase
        /\ result.base_profile \in DOMAIN PROFILES
        /\ (ProfileFields(result) = ProfileFields(PROFILES[result.base_profile]))
              <=> call.args.complexity_preference \notin {"simple", "complex"}
        /\ result.color_mapping =
              [warm_ratio |-> GivenWarm, cool_ratio |-> GivenCool,
               neutral_ratio |-> GivenNeutral]

\* C21's case: the preference "complex" returns the five tones of "chaotic"
\* under the colour-derived name "complex_lissajous", and a cool ratio the
\* caller left out is echoed as 0.33.
C21_Witness ==
    /\ Returned("map_colors")
    /\ call.args.complexity_preference = "complex"
    /\ "cool_ratio" \notin DOMAIN call.args.color_ratios
    /\ GivenWarm > 450
    /\ result.base_profile = "complex_lissajous"
    /\ Len(result.frequencies) = 5
    /\ result.color_mapping.cool_ratio = 330
    /\ result.color_mapping.warm_ratio = GivenWarm

====
